---------------------------- MODULE Spec2Model ----------------------------
(***************************************************************************)
(* The client-side pomodoro timer of OpenPomo: the useTimer hook           *)
(* (client/src/hooks/useTimer.ts), the component that hosts it             *)
(* (client/src/components/Timer.tsx) and the polling web worker            *)
(* (client/public/timerWorker.js).                                         *)
(*                                                                         *)
(* One action is one task of the browser's event loop: an event handler    *)
(* (click, worker message, timer callback, visibility change) together     *)
(* with the React render it schedules and the effects of that render.      *)
(* React state and refs of the hook are the fields of the record t; the    *)
(* worker thread has its own record w; the two message queues between      *)
(* them are toWorker and fromWorker; posts counts the session-log requests *)
(* that have not settled, user tells whether the visitor is logged in.     *)
(* tempSettings is the draft of the settings dialog                        *)
(* (client/src/components/SettingsDialog.tsx); srv is the database and the *)
(* issued tokens of the API server (server/routes).                        *)
(* A callback created by useCallback sees the state of the render that     *)
(* created it: such a closure is the record [mode, pomodoroCount, cfg].    *)
(*                                                                         *)
(* Time is in milliseconds; the configured durations and timeLeft are in   *)
(* seconds, as in the source.  Durations are scaled down to a few seconds. *)
(***************************************************************************)
EXTENDS Integers, Sequences, FiniteSets, TLC

VARIABLES now, env, user, settings, settingsSaved, t, w, toWorker, fromWorker,
          posts, obs, tempSettings, srv

vars == <<now, env, user, settings, settingsSaved, t, w, toWorker, fromWorker,
          posts, obs, tempSettings, srv>>

-----------------------------------------------------------------------------
(* Bounds of the model *)

\* the clock advances MaxSteps times at most
MaxSteps == 6
\* messages in flight in either direction between page and worker
MaxInFlight == 2
\* events the user causes: clicks, settings saved, tab shown, page reloaded
MaxUserEvents == 3
\* FocusSession rows the server stores; the largest actPomodoros a PUT sends
MaxSessions == 2
MaxPomodoros == 2

-----------------------------------------------------------------------------
(* Program constants *)

\* JavaScript null (endTime: number | null)
Null == -1
\* milliseconds per second (now + timeLeft * 1000)
SecondMs == 1000
\* setTimeout(..., 500) of the auto-start
AutoStartDelay == 500
\* setTimeout(..., 100) of the restore-on-mount completion
RestoreDelay == 100
\* newCount % 4 === 0
LongBreakEvery == 4

\* granularity of the model's clock: half a second
Step == SecondMs \div 2
\* Date.now() is never 0: the clock starts one step after the epoch
Epoch == Step
MaxNow == Epoch + MaxSteps * Step

TimerMode == {"pomodoro", "shortBreak", "longBreak"}

\* Timer.tsx DEFAULT_SETTINGS (25, 5 and 15 minutes), scaled down to seconds
DEFAULT_SETTINGS == [pomodoro |-> 1, shortBreak |-> 1, longBreak |-> 2]
\* a configuration the settings dialog may save instead
OtherSettings == [pomodoro |-> 2, shortBreak |-> 2, longBreak |-> 1]
Configs == {DEFAULT_SETTINGS, OtherSettings}

\* how the browser treats `new Worker('/timerWorker.js')`:
\*   "ok"          the worker loads and runs
\*   "broken"      the constructor returns, the script fails, onerror fires later
\*   "unsupported" the constructor throws
Envs == {"ok", "broken", "unsupported"}

-----------------------------------------------------------------------------
(* Pure helpers *)

Max(a, b) == IF a >= b THEN a ELSE b

\* Math.ceil(x / 1000) for an integer x
CeilSeconds(x) == IF x >= 0 THEN (x + SecondMs - 1) \div SecondMs
                            ELSE 0 - ((0 - x) \div SecondMs)

\* Math.max(0, Math.ceil((endTime - now) / 1000))
Remaining(endTime, n) == Max(0, CeilSeconds(endTime - n))

\* getDuration(currentMode) of a render whose settings are cfg
GetDuration(cfg, m) ==
  CASE m = "pomodoro" -> cfg.pomodoro
    [] m = "shortBreak" -> cfg.shortBreak
    [] m = "longBreak" -> cfg.longBreak

\* the closure of handleTimerComplete created by a render
Closure(s, cfg) == [mode |-> s.mode, pomodoroCount |-> s.pomodoroCount, cfg |-> cfg]
NoClosure == [mode |-> "pomodoro", pomodoroCount |-> 0, cfg |-> DEFAULT_SETTINGS]

\* What localStorage holds under 'timerState': nothing, a string JSON.parse
\* rejects, or an object with the fields named in `fields`.
NoSnapshot == [present |-> FALSE]
CorruptSnapshot == [present |-> TRUE, valid |-> FALSE]
StateFields == {"mode", "timeLeft", "hasStarted", "pomodoroCount", "endTime", "isRunning"}

\* the TimerState object the save effect writes
Snapshot(s) ==
  [present |-> TRUE, valid |-> TRUE, fields |-> StateFields,
   mode |-> s.mode, timeLeft |-> s.timeLeft,
   hasStarted |-> s.hasStartedRef, pomodoroCount |-> s.pomodoroCount,
   endTime |-> s.endTimeRef, isRunning |-> s.isRunning]

\* the object getInitialState returns when nothing usable is stored
DefaultState(cfg) ==
  [mode |-> "pomodoro", timeLeft |-> cfg.pomodoro, hasStarted |-> FALSE,
   pomodoroCount |-> 0, endTime |-> Null, isRunning |-> FALSE]

\* getInitialState whose fallback object says hasStarted: true
GetInitialStateStarted(saved, cfg) == [DefaultState(cfg) EXCEPT !.hasStarted = TRUE]

\* getInitialState(): each field of the parsed snapshot, or its default when
\* the field is missing; the defaults when nothing is stored or parsing throws
GetInitialState(saved, cfg) ==
  IF saved.present /\ saved.valid
    THEN LET d == DefaultState(cfg)
             Has(f) == f \in saved.fields
         IN [mode |-> IF Has("mode") THEN saved.mode ELSE d.mode,
             timeLeft |-> IF Has("timeLeft") THEN saved.timeLeft ELSE d.timeLeft,
             hasStarted |-> IF Has("hasStarted") THEN saved.hasStarted ELSE d.hasStarted,
             pomodoroCount |-> IF Has("pomodoroCount") THEN saved.pomodoroCount
                                                     ELSE d.pomodoroCount,
             endTime |-> IF Has("endTime") THEN saved.endTime ELSE d.endTime,
             isRunning |-> IF Has("isRunning") THEN saved.isRunning ELSE d.isRunning]
    ELSE DefaultState(cfg)

-----------------------------------------------------------------------------
(* The hook: state, refs, pending timers, persisted snapshot *)

\* messages of the ticker transport
Start(e) == [type |-> "START", endTime |-> e]
Stop == [type |-> "STOP", endTime |-> Null]
Check == [type |-> "CHECK", endTime |-> Null]
Tick(r) == [type |-> "TICK", remaining |-> r]
Complete == [type |-> "COMPLETE", remaining |-> 0]

\* workerRef.current.postMessage(msg)
PostMessage(s, msg) == [s EXCEPT !.post = Append(@, msg)]

\* clearInterval(fallbackIntervalRef.current): the ref keeps the stale id
ClearFallback(s) ==
  IF s.fallbackIntervalRef
    THEN [s EXCEPT !.fbActive = FALSE, !.fbClosure = NoClosure]
    ELSE s

\* the body of handleTimerComplete past its guard, as created by the render
\* whose closure is c: notify, count, advance the mode, schedule the auto-start
CompletionPolicy(s, c, n) ==
  LET newCount == c.pomodoroCount + 1
      nextMode == IF c.mode = "pomodoro"
                    THEN (IF newCount % LongBreakEvery = 0 THEN "longBreak" ELSE "shortBreak")
                    ELSE "pomodoro"
      nextDuration == GetDuration(c.cfg, nextMode)
  IN [s EXCEPT !.completingRef = TRUE,
               !.emit = Append(@, c.mode),
               !.pomodoroCount = IF c.mode = "pomodoro" THEN newCount ELSE @,
               !.mode = nextMode,
               !.timeLeft = nextDuration,
               !.hasStartedRef = TRUE,
               !.autoStarts = Append(@, [due |-> n + AutoStartDelay,
                                         nextDuration |-> nextDuration])]

\* handleTimerComplete without `if (completingRef.current) return`
HandleTimerCompleteNoGuard(s, c, n) == CompletionPolicy(s, c, n)

HandleTimerComplete(s, c, n) ==
  IF s.completingRef THEN s ELSE CompletionPolicy(s, c, n)

\* the callback of the auto-start setTimeout
AutoStart(s, a, n) ==
  LET newEndTime == n + a.nextDuration * SecondMs
      s1 == [s EXCEPT !.endTimeRef = newEndTime, !.isRunning = TRUE,
                      !.autoStarts = Tail(@)]
      s2 == IF s1.workerRef THEN PostMessage(s1, Start(newEndTime)) ELSE s1
  IN [s2 EXCEPT !.completingRef = FALSE]

\* worker.onmessage of the page
OnWorkerMessage(s, c, msg, n) ==
  IF msg.type = "TICK"
    THEN [s EXCEPT !.timeLeft = msg.remaining]
    ELSE HandleTimerComplete([s EXCEPT !.isRunning = FALSE, !.endTimeRef = Null], c, n)

\* fallbackIntervalRef.current = setInterval(...): the callback keeps the
\* closure c; an interval the ref still named goes on firing unreferenced
SetFallbackInterval(s, c) ==
  [s EXCEPT !.fbOrphans = @ + (IF s.fbActive THEN 1 ELSE 0),
            !.fallbackIntervalRef = TRUE, !.fbActive = TRUE, !.fbClosure = c]

\* startFallbackInterval without the clearInterval of its first line
StartFallbackIntervalNoClear(s, c) == SetFallbackInterval(s, c)

\* startFallbackInterval()
StartFallbackInterval(s, c) == SetFallbackInterval(ClearFallback(s), c)

\* the fallback callback if it counted timeLeft down by one per run instead
\* of recomputing it from the deadline
FallbackCallbackCountdown(s, n) ==
  IF s.endTimeRef = Null \/ s.completingRef
    THEN s
    ELSE LET remaining == Max(0, s.timeLeft - 1)
             s1 == [s EXCEPT !.timeLeft = remaining]
         IN IF remaining <= 0
              THEN HandleTimerComplete(
                     [ClearFallback(s1) EXCEPT !.isRunning = FALSE, !.endTimeRef = Null],
                     s.fbClosure, n)
              ELSE s1

\* one run of the fallback interval's callback
FallbackCallback(s, n) ==
  IF s.endTimeRef = Null \/ s.completingRef
    THEN s
    ELSE LET remaining == Remaining(s.endTimeRef, n)
             s1 == [s EXCEPT !.timeLeft = remaining]
         IN IF remaining <= 0
              THEN HandleTimerComplete(
                     [ClearFallback(s1) EXCEPT !.isRunning = FALSE, !.endTimeRef = Null],
                     s.fbClosure, n)
              ELSE s1

SwitchModeHandler(s, cfg, newMode) ==
  LET s1 == [s EXCEPT !.mode = newMode, !.timeLeft = GetDuration(cfg, newMode),
                      !.hasStartedRef = FALSE, !.isRunning = FALSE,
                      !.endTimeRef = Null]
      s2 == IF s1.workerRef THEN PostMessage(s1, Stop) ELSE s1
  IN ClearFallback(s2)

\* the body of startTimer past `if (isRunning) return`
StartTimerBody(s, cfg, n) ==
  LET newEndTime == n + s.timeLeft * SecondMs
      s1 == [s EXCEPT !.endTimeRef = newEndTime, !.hasStartedRef = TRUE,
                      !.isRunning = TRUE]
  IN IF s1.workerRef
       THEN PostMessage(s1, Start(newEndTime))
       ELSE StartFallbackInterval(s1, Closure(s, cfg))

\* startTimer without `if (isRunning) return`
StartTimerHandlerNoGuard(s, cfg, n) == StartTimerBody(s, cfg, n)

StartTimerHandler(s, cfg, n) ==
  IF s.isRunning THEN s ELSE StartTimerBody(s, cfg, n)

\* the body of pauseTimer past `if (!isRunning) return`
PauseTimerBody(s, n) ==
  LET s1 == IF s.endTimeRef # Null
              THEN [s EXCEPT !.timeLeft = Remaining(s.endTimeRef, n)]
              ELSE s
      s2 == [s1 EXCEPT !.isRunning = FALSE, !.endTimeRef = Null]
      s3 == IF s2.workerRef THEN PostMessage(s2, Stop) ELSE s2
  IN ClearFallback(s3)

\* pauseTimer without `if (!isRunning) return`
PauseTimerHandlerNoGuard(s, n) == PauseTimerBody(s, n)

PauseTimerHandler(s, n) ==
  IF ~s.isRunning THEN s ELSE PauseTimerBody(s, n)

\* handleVisibilityChange with document.visibilityState === 'visible'
HandleVisibilityChange(s, c, n) ==
  IF s.isRunning /\ s.endTimeRef # Null
    THEN IF s.workerRef
           THEN PostMessage(s, Check)
           ELSE LET remaining == Remaining(s.endTimeRef, n)
                    s1 == [s EXCEPT !.timeLeft = remaining]
                IN IF remaining <= 0
                     THEN HandleTimerComplete(
                            [s1 EXCEPT !.isRunning = FALSE, !.endTimeRef = Null], c, n)
                     ELSE s1
    ELSE s

\* resetTimer without `completingRef.current = false`
ResetTimerKeepsGuard(s, cfg) ==
  LET s1 == [s EXCEPT !.isRunning = FALSE, !.endTimeRef = Null,
                      !.hasStartedRef = FALSE,
                      !.timeLeft = GetDuration(cfg, s.mode)]
      s2 == IF s1.workerRef THEN PostMessage(s1, Stop) ELSE s1
  IN ClearFallback(s2)

ResetTimerHandler(s, cfg) ==
  LET s1 == [s EXCEPT !.isRunning = FALSE, !.endTimeRef = Null,
                      !.hasStartedRef = FALSE, !.completingRef = FALSE,
                      !.timeLeft = GetDuration(cfg, s.mode)]
      s2 == IF s1.workerRef THEN PostMessage(s1, Stop) ELSE s1
  IN ClearFallback(s2)

\* the config effect without its `!isRunning && !hasStartedRef.current` test
ResizeEffectAlways(s, cfg) == [s EXCEPT !.timeLeft = GetDuration(cfg, s.mode)]

\* the config effect of a render whose settings are cfg: an untouched phase
\* takes the configured duration of its mode
ResizeEffect(s, cfg) ==
  IF ~s.isRunning /\ ~s.hasStartedRef
    THEN [s EXCEPT !.timeLeft = GetDuration(cfg, s.mode)]
    ELSE s

\* The render that follows a handler, and its effects in the order the hook
\* declares them: save state, (re)create the worker, resize timeLeft.
\* old/cfgOld: the previous render; new/cfgNew: the state after the handler;
\* cbChanged: the onComplete prop is a new function.
Commit(old, new, cfgOld, cfgNew, cbChanged) ==
  LET saveDeps == <<old.mode, old.timeLeft, old.pomodoroCount, old.isRunning>>
                    # <<new.mode, new.timeLeft, new.pomodoroCount, new.isRunning>>
      handlerChanged == \/ old.mode # new.mode
                        \/ old.pomodoroCount # new.pomodoroCount
                        \/ cfgOld # cfgNew
                        \/ cbChanged
      s1 == IF handlerChanged
              THEN [new EXCEPT !.workerRef = (env # "unsupported"),
                               !.respawn = TRUE, !.post = <<>>]
              ELSE new
      resizeDeps == \/ cfgOld # cfgNew
                    \/ old.mode # new.mode
                    \/ old.isRunning # new.isRunning
      s2 == IF resizeDeps THEN ResizeEffect(s1, cfgNew) ELSE s1
  IN IF saveDeps \/ s2.timeLeft # new.timeLeft
       THEN [s2 EXCEPT !.saved = Snapshot(s2)]
       ELSE s2

\* The first render of a page load and its mount effects, followed by the
\* render that Timer's loadSettings effect schedules when settings were saved.
Mount(saved, cfgSaved, hasSaved, n) ==
  LET init == GetInitialState(saved, DEFAULT_SETTINGS)
      first == [mode |-> init.mode, timeLeft |-> init.timeLeft, isRunning |-> FALSE,
                pomodoroCount |-> init.pomodoroCount, endTimeRef |-> init.endTime,
                hasStartedRef |-> init.hasStarted, completingRef |-> FALSE,
                workerRef |-> FALSE, fallbackIntervalRef |-> FALSE,
                fbActive |-> FALSE, fbClosure |-> NoClosure, fbOrphans |-> 0,
                restore |-> [pending |-> FALSE, due |-> 0, closure |-> NoClosure],
                autoStarts |-> <<>>, saved |-> saved,
                post |-> <<>>, emit |-> <<>>, respawn |-> FALSE]
      c0 == Closure(first, DEFAULT_SETTINGS)
      \* save effect
      e1 == [first EXCEPT !.saved = Snapshot(first)]
      \* worker effect
      e2 == [e1 EXCEPT !.workerRef = (env # "unsupported")]
      \* restore effect
      e3 == IF init.isRunning /\ init.endTime # Null
              THEN IF init.endTime > n
                     THEN LET r == [e2 EXCEPT !.endTimeRef = init.endTime,
                                              !.timeLeft = CeilSeconds(init.endTime - n),
                                              !.isRunning = TRUE]
                          IN IF r.workerRef
                               THEN PostMessage(r, Start(init.endTime))
                               ELSE StartFallbackInterval(r, c0)
                     ELSE [e2 EXCEPT !.timeLeft = 0,
                                     !.restore = [pending |-> TRUE,
                                                  due |-> n + RestoreDelay,
                                                  closure |-> c0]]
              ELSE e2
      \* resize effect of the first render (isRunning is false in its closure)
      e4 == IF ~e3.hasStartedRef
              THEN [e3 EXCEPT !.timeLeft = GetDuration(DEFAULT_SETTINGS, e3.mode)]
              ELSE e3
      cfgNew == IF hasSaved THEN cfgSaved ELSE DEFAULT_SETTINGS
  IN Commit(first, e4, DEFAULT_SETTINGS, cfgNew, hasSaved)

-----------------------------------------------------------------------------
(* The worker thread (timerWorker.js) *)

\* timerId: the interval timerId names is live; orphans: live intervals of
\* this worker that timerId no longer names
IdleWorker == [timerId |-> FALSE, endTime |-> Null, orphans |-> 0]

\* checkTime(): the new worker state and the messages it posts
CheckTime(ws, n) ==
  IF ws.endTime = Null
    THEN [w |-> ws, out |-> <<>>]
    ELSE LET remaining == Remaining(ws.endTime, n)
         IN IF remaining <= 0
              THEN [w |-> [ws EXCEPT !.timerId = FALSE, !.endTime = Null],
                    out |-> <<Tick(remaining), Complete>>]
              ELSE [w |-> ws, out |-> <<Tick(remaining)>>]

\* timerId = setInterval(checkTime, 100): an interval timerId still named
\* goes on firing with no handle left to clear it
SetInterval(ws) ==
  [ws EXCEPT !.orphans = @ + (IF ws.timerId THEN 1 ELSE 0), !.timerId = TRUE]

\* case 'STOP' without `endTime = null`
WorkerStopKeepsDeadline(ws) == [ws EXCEPT !.timerId = FALSE]

\* case 'STOP': clear the interval timerId names, forget the deadline
WorkerStop(ws) == [ws EXCEPT !.timerId = FALSE, !.endTime = Null]

\* self.onmessage
WorkerOnMessage(ws, msg, n) ==
  CASE msg.type = "START" ->
         LET c == CheckTime([ws EXCEPT !.endTime = msg.endTime, !.timerId = FALSE], n)
         IN [w |-> SetInterval(c.w), out |-> c.out]
    [] msg.type = "STOP" -> [w |-> WorkerStop(ws), out |-> <<>>]
    [] msg.type = "CHECK" -> CheckTime(ws, n)

-----------------------------------------------------------------------------
(* Observation of a step: which handler ran, what it notified *)

\* labels of the steps that arm a deadline or clear the completion guard
ArmLabels == {"start", "autoStart", "reload", "reset"}

\* labels of the steps the user causes
UserLabels == {"start", "startNoop", "pause", "pauseNoop", "reset", "switchMode",
               "visibility", "configChange", "configSave", "rerender", "reload"}

\* act: the handler of the last step; userEvents: how many steps the user caused; lastArg: the mode the last completion
\* notification carried; runs: completion notifications since the last arming;
\* fired: the last step ran the completion policy; swallowed: the last step
\* called handleTimerComplete and its guard returned; abandoned: switchMode
\* interrupted a running phase and no deadline was armed since; loaded: what
\* the page load of the last step found in localStorage; armedWith: timeLeft
\* at the moment the active deadline was armed, Null without a deadline;
\* frozen: timeLeft as the last pause left it, Null once the user started,
\* reset or switched the timer; cancelled: reset or switchMode ran during an
\* auto-start delay and neither a start nor a new completion came since
Observe(r, label, trigger) ==
  [act |-> label,
   loaded |-> NoSnapshot,
   armedWith |-> IF r.endTimeRef = Null THEN Null
                 ELSE IF label = "start" THEN t.timeLeft
                 ELSE IF label = "autoStart" THEN Head(t.autoStarts).nextDuration
                 ELSE IF label = "reload" THEN r.timeLeft
                 ELSE obs.armedWith,
   userEvents |-> obs.userEvents + (IF label \in UserLabels THEN 1 ELSE 0),
   lastArg |-> IF r.emit # <<>> THEN r.emit[Len(r.emit)] ELSE obs.lastArg,
   runs |-> IF label \in ArmLabels THEN 0 ELSE obs.runs + Len(r.emit),
   fired |-> r.emit # <<>>,
   swallowed |-> trigger /\ r.emit = <<>>,
   abandoned |-> IF label = "switchMode" /\ t.isRunning THEN TRUE
                 ELSE IF label \in {"start", "autoStart", "reload"} THEN FALSE
                 ELSE obs.abandoned,
   frozen |-> IF label = "pause" THEN r.timeLeft
              ELSE IF label \in {"start", "autoStart", "reset", "switchMode", "reload"}
                THEN Null
              ELSE obs.frozen,
   cancelled |-> IF label \in {"reset", "switchMode"} /\ t.autoStarts # <<>> THEN TRUE
                 ELSE IF label \in {"start", "reload"} \/ r.emit # <<>> THEN FALSE
                 ELSE obs.cancelled]

\* labels of the steps in which the worker handles STOP: on a polling worker,
\* on an idle one, and directly after another STOP
StopLabels == {"workerStop", "workerStopIdle", "workerStopAgain"}

\* the observation of a step that runs no handler of the hook
Quiet(label) ==
  [obs EXCEPT !.act = label, !.fired = FALSE, !.swallowed = FALSE,
              !.loaded = NoSnapshot]

\* Timer's onComplete calls logSession once per notification: nothing without
\* a logged-in user, else one POST /sessions that is left to settle on its own.
\* pending: the requests that have not settled
LogSession(loggedIn, pending, notifications) ==
  IF loggedIn THEN pending + notifications ELSE pending

\* logSession when its request fails, if it undid the completion's auto-start
SessionSettledRollback(s, outcome) ==
  IF outcome = "error" THEN [s EXCEPT !.autoStarts = <<>>] ELSE s

\* logSession after `await apiClient.post`: console.log on success,
\* console.error in the catch block; the hook is not touched
SessionSettled(s, outcome) == s

\* a task of the page's event loop ends: r is the hook after handler and render,
\* fw the page's inbox after the task
Main(r, label, trigger, fw) ==
  /\ Len(toWorker) + Len(r.post) <= MaxInFlight
  /\ label \in UserLabels => obs.userEvents < MaxUserEvents
  /\ t' = [r EXCEPT !.post = <<>>, !.emit = <<>>, !.respawn = FALSE]
  /\ IF r.respawn
       THEN w' = IdleWorker /\ toWorker' = <<>> /\ fromWorker' = <<>>
       ELSE /\ w' = w
            /\ toWorker' = (IF env = "ok" THEN toWorker \o r.post ELSE <<>>)
            /\ fromWorker' = fw
  /\ posts' = LogSession(user, posts, Len(r.emit))
  /\ obs' = Observe(r, label, trigger)
  /\ UNCHANGED <<now, env, user, srv>>

-----------------------------------------------------------------------------
(* The settings dialog: SettingsDialog.tsx *)

\* SettingsDialog.tsx DEFAULT_SETTINGS, in seconds
DialogDefaults == [pomodoro |-> 25 * 60, shortBreak |-> 5 * 60, longBreak |-> 15 * 60]

SecondsPerMinute == 60
\* the `max` of the minutes input of each mode, and of every seconds input
MaxMinutes == [pomodoro |-> 60, shortBreak |-> 30, longBreak |-> 60]
MaxSeconds == 59

\* the largest duration the two inputs of a mode can express
CapSeconds(m) == MaxMinutes[m] * SecondsPerMinute + MaxSeconds

Min(a, b) == IF a <= b THEN a ELSE b

toMinSec(totalSeconds) ==
  [min |-> totalSeconds \div SecondsPerMinute, sec |-> totalSeconds % SecondsPerMinute]

toSeconds(min, sec) == min * SecondsPerMinute + sec

\* what the user may have in an input field: nothing, or an integer below,
\* at the edges of and above the allowed range
Typed == {-1, 0, 1, 61}
InputTexts == {[empty |-> TRUE, num |-> 0]} \cup {[empty |-> FALSE, num |-> n] : n \in Typed}

\* Math.max(0, Math.min(max, num))
Clamp(num, max) == Max(0, Min(max, num))

\* DurationInput.handleChange: the value passed to onChange, Null when
\* onChange is not called (the field was emptied)
HandleChange(raw, max) == IF raw.empty THEN Null ELSE Clamp(raw.num, max)

\* DurationInput.handleBlur: an empty field becomes 0
HandleBlur(text, max) == IF text.empty THEN 0 ELSE Clamp(text.num, max)

\* the onChange of the minutes or seconds input of mode m: the new draft
SetDuration(draft, m, field, val) ==
  LET cur == toMinSec(draft[m])
  IN [draft EXCEPT ![m] = IF field = "min" THEN toSeconds(val, cur.sec)
                          ELSE toSeconds(cur.min, val)]

\* the `max` prop of the minutes or seconds input of mode m
MaxOf(m, field) == IF field = "min" THEN MaxMinutes[m] ELSE MaxSeconds

-----------------------------------------------------------------------------
(* The API server: routes/auth, routes/sessions, routes/tasks, routes/admin *)

Users == {"u1", "u2"}
Roles == {"user", "admin"}

\* the tasks in the database, and two ids a request may carry besides:
\* NoTask for an absent taskId, MissingTask for an id no row has
TaskIds == {1, 2}
NoTask == 0
MissingTask == 3
OwnerOf(k) == IF k = 1 THEN "u1" ELSE "u2"

\* a request without cookie and Authorization header
NoToken == [userId |-> "none", role |-> "none"]

\* the last request the server answered; demoted: the requester had been
\* changed from admin to user before the request
NoRequest ==
  [route |-> "none", by |-> "none", status |-> 0, taskId |-> NoTask,
   type |-> "none", demoted |-> FALSE]

\* role: User.role; tasks: the Task rows; sessions: the number of
\* FocusSession rows; tokens: the payloads of the tokens signed so far;
\* jwtSecret: the environment defines JWT_SECRET; demoted: the users whose
\* role PATCH /admin/users/:id/role changed from admin to user
InitialServer ==
  [role |-> [u \in Users |-> "user"],
   tasks |-> [k \in TaskIds |-> [userId |-> OwnerOf(k), actPomodoros |-> 0]],
   sessions |-> 0,
   tokens |-> {},
   jwtSecret |-> TRUE,
   demoted |-> {},
   last |-> NoRequest]

Answer(s, route, by, status, taskId, type) ==
  [s EXCEPT !.last = [route |-> route, by |-> by, status |-> status,
                      taskId |-> taskId, type |-> type,
                      demoted |-> by \in s.demoted]]

\* jwt.sign({ userId, role: user.role }) of register and login; a failed
\* password check answers 400
LoginHandler(s, u, passwordOk) ==
  IF passwordOk
    THEN Answer([s EXCEPT !.tokens = @ \cup {[userId |-> u, role |-> s.role[u]]}],
                "POST /auth/login", u, 200, NoTask, "none")
    ELSE Answer(s, "POST /auth/login", u, 400, NoTask, "none")

\* requireAuth: signs and verifies with the same secret, trusts the payload
RequireAuth(tok) == tok # NoToken

\* adminAuth: 0 when the request passes, else the status it answers. Without
\* JWT_SECRET it verifies with 'fallback-secret' a token that was signed
\* with 'supersecretkey123'
AdminAuth(s, tok) ==
  IF tok = NoToken THEN 401
  ELSE IF ~s.jwtSecret THEN 401
  ELSE IF tok.role # "admin" THEN 403
  ELSE 0

\* router.post('/') of routes/sessions behind requireAuth
PostSessionHandler(s, tok, taskId, type) ==
  IF ~RequireAuth(tok)
    THEN Answer(s, "POST /sessions", "none", 401, taskId, type)
  ELSE IF taskId = MissingTask
    THEN Answer(s, "POST /sessions", tok.userId, 500, taskId, type)
  ELSE LET s1 == [s EXCEPT !.sessions = @ + 1]
           s2 == IF type = "pomodoro" /\ taskId # NoTask
                   THEN [s1 EXCEPT !.tasks[taskId].actPomodoros = @ + 1]
                   ELSE s1
       IN Answer(s2, "POST /sessions", tok.userId, 201, taskId, type)

\* router.put('/:id') of routes/tasks behind requireAuth
PutTaskHandler(s, tok, id, actPomodoros) ==
  IF ~RequireAuth(tok)
    THEN Answer(s, "PUT /tasks/:id", "none", 401, id, "none")
  ELSE IF id \notin TaskIds \/ s.tasks[id].userId # tok.userId
    THEN Answer(s, "PUT /tasks/:id", tok.userId, 404, id, "none")
  ELSE Answer([s EXCEPT !.tasks[id].actPomodoros = actPomodoros],
              "PUT /tasks/:id", tok.userId, 200, id, "none")

\* router.get('/users', adminAuth, ...)
AdminGetUsersHandler(s, tok) ==
  LET denied == AdminAuth(s, tok)
  IN Answer(s, "GET /admin/users", tok.userId, IF denied # 0 THEN denied ELSE 200,
            NoTask, "none")

\* router.patch('/users/:id/role', adminAuth, ...)
PatchRoleHandler(s, tok, id, role) ==
  LET denied == AdminAuth(s, tok)
      route == "PATCH /admin/users/:id/role"
  IN IF denied # 0 THEN Answer(s, route, tok.userId, denied, NoTask, "none")
     ELSE IF id = tok.userId \/ role \notin Roles
       THEN Answer(s, route, tok.userId, 400, NoTask, "none")
     ELSE Answer([s EXCEPT !.role[id] = role,
                           !.demoted = IF role = "admin" THEN @ \ {id}
                                       ELSE IF s.role[id] = "admin" THEN @ \cup {id}
                                       ELSE @],
                 route, tok.userId, 200, NoTask, "none")

-----------------------------------------------------------------------------
(* Actions *)

Init ==
  /\ now = Epoch
  /\ env \in Envs
  /\ user = FALSE
  /\ settings = DEFAULT_SETTINGS
  /\ settingsSaved = FALSE
  /\ t = Mount(NoSnapshot, DEFAULT_SETTINGS, FALSE, Epoch)
  /\ w = IdleWorker
  /\ toWorker = <<>>
  /\ fromWorker = <<>>
  /\ posts = 0
  /\ tempSettings = settings
  /\ srv = InitialServer
  /\ obs = [act |-> "init", loaded |-> NoSnapshot, armedWith |-> Null,
           userEvents |-> 0,
           lastArg |-> "none", runs |-> 0,
           fired |-> FALSE, swallowed |-> FALSE, abandoned |-> FALSE,
           frozen |-> Null, cancelled |-> FALSE]

\* time passes
Advance ==
  /\ now < MaxNow
  /\ now' = now + Step
  /\ obs' = Quiet("advance")
  /\ UNCHANGED <<env, user, settings, settingsSaved, t, w, toWorker, fromWorker, posts,
               tempSettings, srv>>

\* click on the play button
StartTimer ==
  /\ Main(Commit(t, StartTimerHandler(t, settings, now), settings, settings, FALSE),
          IF t.isRunning THEN "startNoop" ELSE "start", FALSE, fromWorker)
  /\ UNCHANGED <<settings, settingsSaved, tempSettings>>

\* click on the pause button
PauseTimer ==
  /\ Main(Commit(t, PauseTimerHandler(t, now), settings, settings, FALSE),
          IF t.isRunning THEN "pause" ELSE "pauseNoop", FALSE, fromWorker)
  /\ UNCHANGED <<settings, settingsSaved, tempSettings>>

\* click on the restart button
ResetTimer ==
  /\ Main(Commit(t, ResetTimerHandler(t, settings), settings, settings, FALSE),
          "reset", FALSE, fromWorker)
  /\ UNCHANGED <<settings, settingsSaved, tempSettings>>

\* click on one of the three mode buttons
SwitchMode ==
  \E newMode \in TimerMode :
    /\ Main(Commit(t, SwitchModeHandler(t, settings, newMode), settings, settings, FALSE),
            "switchMode", FALSE, fromWorker)
    /\ UNCHANGED <<settings, settingsSaved, tempSettings>>

\* the page receives the next message of its worker
OnMessage ==
  /\ fromWorker # <<>>
  /\ LET msg == Head(fromWorker)
     IN Main(Commit(t, OnWorkerMessage(t, Closure(t, settings), msg, now),
                    settings, settings, FALSE),
             IF msg.type = "TICK" THEN "tick" ELSE "complete",
             msg.type = "COMPLETE", Tail(fromWorker))
  /\ UNCHANGED <<settings, settingsSaved, tempSettings>>

\* the fallback interval fires
FallbackTick ==
  /\ t.fbActive
  /\ Main(Commit(t, FallbackCallback(t, now), settings, settings, FALSE),
          "fallbackTick", FALSE, fromWorker)
  /\ UNCHANGED <<settings, settingsSaved, tempSettings>>

\* the tab becomes visible again
VisibilityChange ==
  /\ Main(Commit(t, HandleVisibilityChange(t, Closure(t, settings), now),
                 settings, settings, FALSE),
          "visibility",
          t.isRunning /\ t.endTimeRef # Null /\ ~t.workerRef
            /\ Remaining(t.endTimeRef, now) <= 0,
          fromWorker)
  /\ UNCHANGED <<settings, settingsSaved, tempSettings>>

\* the 100 ms timeout of the restore effect fires
RestoreTimeout ==
  /\ t.restore.pending
  /\ now >= t.restore.due
  /\ Main(Commit(t, HandleTimerComplete(
                      [t EXCEPT !.restore = [pending |-> FALSE, due |-> 0,
                                             closure |-> NoClosure]],
                      t.restore.closure, now),
                 settings, settings, FALSE),
          "restoreTimeout", TRUE, fromWorker)
  /\ UNCHANGED <<settings, settingsSaved, tempSettings>>

\* the 500 ms timeout of a completion fires; timers of one page fire in the
\* order of their due times, so the restore timeout goes first
AutoStartTimeout ==
  /\ t.autoStarts # <<>>
  /\ ~t.restore.pending
  /\ now >= Head(t.autoStarts).due
  /\ Main(Commit(t, AutoStart(t, Head(t.autoStarts), now), settings, settings, FALSE),
          "autoStart", FALSE, fromWorker)
  /\ UNCHANGED <<settings, settingsSaved, tempSettings>>

\* the settings dialog saves durations, changed or not; Timer reloads them
\* (settingsChanged)
ConfigChange ==
  \E cfg \in Configs :
    /\ Main(Commit(t, t, settings, cfg, TRUE),
            IF cfg # settings THEN "configChange" ELSE "configSave", FALSE, fromWorker)
    /\ settings' = cfg
    /\ settingsSaved' = TRUE
    /\ tempSettings' = cfg

\* Timer renders with a new onComplete: sound toggled, active task changed,
\* auth state refreshed
Rerender ==
  /\ Main(Commit(t, t, settings, settings, TRUE), "rerender", FALSE, fromWorker)
  /\ UNCHANGED <<settings, settingsSaved, tempSettings>>

\* the worker's script failed: worker.onerror
WorkerError ==
  /\ env = "broken"
  /\ t.workerRef
  /\ t' = [t EXCEPT !.workerRef = FALSE]
  /\ obs' = Quiet("workerError")
  /\ UNCHANGED <<now, env, user, settings, settingsSaved, w, toWorker, fromWorker, posts,
               tempSettings, srv>>

\* the page is reloaded: a new hook instance, initialised from localStorage
Reload ==
  /\ obs.userEvents < MaxUserEvents
  /\ LET r == Mount(t.saved, settings, settingsSaved, now)
     IN /\ t' = [r EXCEPT !.post = <<>>, !.emit = <<>>, !.respawn = FALSE]
        /\ toWorker' = (IF env = "ok" THEN r.post ELSE <<>>)
        /\ obs' = [Observe(r, "reload", FALSE) EXCEPT !.loaded = t.saved]
  /\ w' = IdleWorker
  /\ fromWorker' = <<>>
  /\ settings' = (IF settingsSaved THEN settings ELSE DEFAULT_SETTINGS)
  /\ posts' = 0
  /\ tempSettings' = settings'
  /\ UNCHANGED <<now, env, user, settingsSaved, srv>>

\* the worker thread handles the next command
WorkerReceive ==
  /\ env = "ok"
  /\ toWorker # <<>>
  /\ LET res == WorkerOnMessage(w, Head(toWorker), now)
     IN /\ Len(fromWorker) + Len(res.out) <= MaxInFlight
        /\ w' = res.w
        /\ fromWorker' = fromWorker \o res.out
  /\ toWorker' = Tail(toWorker)
  /\ obs' = Quiet(IF Head(toWorker).type # "STOP" THEN "workerReceive"
                  ELSE IF obs.act \in StopLabels THEN "workerStopAgain"
                  ELSE IF w.timerId \/ w.endTime # Null THEN "workerStop"
                  ELSE "workerStopIdle")
  /\ UNCHANGED <<now, env, user, settings, settingsSaved, t, posts,
               tempSettings, srv>>

\* the worker's 100 ms interval fires
WorkerInterval ==
  /\ env = "ok"
  /\ w.timerId
  /\ w.endTime # Null
  /\ LET res == CheckTime(w, now)
     IN /\ Len(fromWorker) + Len(res.out) <= MaxInFlight
        /\ w' = res.w
        /\ fromWorker' = fromWorker \o res.out
  /\ obs' = Quiet("workerInterval")
  /\ UNCHANGED <<now, env, user, settings, settingsSaved, t, toWorker, posts,
               tempSettings, srv>>

\* a POST /sessions request settles: the server answered, or the call failed
SessionResponse ==
  /\ posts > 0
  /\ \E outcome \in {"ok", "error"} :
       /\ t' = SessionSettled(t, outcome)
       /\ obs' = Quiet(IF outcome = "ok" THEN "sessionLogged" ELSE "sessionFailed")
  /\ posts' = posts - 1
  /\ UNCHANGED <<now, env, user, settings, settingsSaved, w, toWorker, fromWorker,
               tempSettings, srv>>

Next ==
  \/ Advance
  \/ StartTimer
  \/ PauseTimer
  \/ ResetTimer
  \/ SwitchMode
  \/ OnMessage
  \/ FallbackTick
  \/ VisibilityChange
  \/ RestoreTimeout
  \/ AutoStartTimeout
  \/ ConfigChange
  \/ Rerender
  \/ WorkerError
  \/ Reload
  \/ WorkerReceive
  \/ WorkerInterval

Spec == Init /\ [][Next]_vars

-----------------------------------------------------------------------------
(* The same page used by a visitor who is logged in: completions are logged *)

InitLogged ==
  /\ now = Epoch
  /\ env \in Envs
  /\ user = TRUE
  /\ settings = DEFAULT_SETTINGS
  /\ settingsSaved = FALSE
  /\ t = Mount(NoSnapshot, DEFAULT_SETTINGS, FALSE, Epoch)
  /\ w = IdleWorker
  /\ toWorker = <<>>
  /\ fromWorker = <<>>
  /\ posts = 0
  /\ tempSettings = settings
  /\ srv = InitialServer
  /\ obs = [act |-> "init", loaded |-> NoSnapshot, armedWith |-> Null,
            userEvents |-> 0, lastArg |-> "none", runs |-> 0,
            fired |-> FALSE, swallowed |-> FALSE, abandoned |-> FALSE,
           frozen |-> Null, cancelled |-> FALSE]

NextLogged ==
  \/ Next
  \/ SessionResponse

SpecLogged == InitLogged /\ [][NextLogged]_vars

-----------------------------------------------------------------------------
(* A page load over whatever localStorage holds, then left to itself *)

\* an object stored under 'timerState' that has the fields fs only
StoredObject(fs, m, tl, hs, pc, e, run) ==
  [present |-> TRUE, valid |-> TRUE, fields |-> fs, mode |-> m, timeLeft |-> tl,
   hasStarted |-> hs, pomodoroCount |-> pc, endTime |-> e, isRunning |-> run]

\* nothing, garbage, three partial objects (one as a version of the hook
\* without endTime and isRunning wrote it), a stale and a live running phase
StoredValues ==
  {NoSnapshot, CorruptSnapshot,
   StoredObject(StateFields \ {"endTime", "isRunning"},
                "shortBreak", 1, TRUE, 1, Null, FALSE),
   StoredObject({"pomodoroCount"}, "pomodoro", 0, FALSE, 2, Null, FALSE),
   StoredObject({"isRunning", "endTime"}, "pomodoro", 0, FALSE, 0,
                Epoch + 2 * Step, TRUE),
   StoredObject(StateFields, "pomodoro", 1, TRUE, 0, Epoch, TRUE),
   StoredObject(StateFields, "longBreak", 2, TRUE, 0, Epoch + 2 * Step, TRUE)}

InitLoad ==
  /\ now = Epoch
  /\ env \in Envs
  /\ user = FALSE
  /\ settingsSaved \in BOOLEAN
  /\ settings = (IF settingsSaved THEN OtherSettings ELSE DEFAULT_SETTINGS)
  /\ \E stored \in StoredValues :
       LET r == Mount(stored, settings, settingsSaved, Epoch)
       IN /\ t = [r EXCEPT !.post = <<>>, !.emit = <<>>, !.respawn = FALSE]
          /\ toWorker = (IF env = "ok" THEN r.post ELSE <<>>)
          /\ obs = [act |-> "load", loaded |-> stored,
                    armedWith |-> (IF r.endTimeRef = Null THEN Null ELSE r.timeLeft),
                    userEvents |-> 0,
                    lastArg |-> "none", runs |-> 0,
                    fired |-> FALSE, swallowed |-> FALSE, abandoned |-> FALSE,
           frozen |-> Null, cancelled |-> FALSE]
  /\ w = IdleWorker
  /\ fromWorker = <<>>
  /\ posts = 0
  /\ tempSettings = settings
  /\ srv = InitialServer

NextLoad ==
  \/ Advance
  \/ OnMessage
  \/ FallbackTick
  \/ RestoreTimeout
  \/ AutoStartTimeout
  \/ WorkerError
  \/ WorkerReceive
  \/ WorkerInterval

SpecLoad == InitLoad /\ [][NextLoad]_vars

-----------------------------------------------------------------------------
(* The settings dialog open on a page whose stored durations are the defaults *)

\* a step of the dialog that the timer does not see
DialogStep(label) ==
  /\ obs.userEvents < MaxUserEvents
  /\ obs' = [Quiet(label) EXCEPT !.userEvents = @ + 1]
  /\ UNCHANGED <<now, env, user, settings, settingsSaved, t, w, toWorker, fromWorker,
                 posts, srv>>

\* openSettings: the draft starts from the saved durations
OpenSettings ==
  /\ DialogStep("openSettings")
  /\ tempSettings' = settings

\* the user types into the minutes or seconds input of a mode
DurationChange ==
  \E m \in TimerMode, field \in {"min", "sec"}, raw \in InputTexts :
    LET val == HandleChange(raw, MaxOf(m, field))
    IN /\ DialogStep("durationChange")
       /\ tempSettings' = IF val = Null THEN tempSettings
                          ELSE SetDuration(tempSettings, m, field, val)

\* the input of a mode loses the focus with text in it
DurationBlur ==
  \E m \in TimerMode, field \in {"min", "sec"}, text \in InputTexts :
    /\ DialogStep("durationBlur")
    /\ tempSettings' = SetDuration(tempSettings, m, field,
                                   HandleBlur(text, MaxOf(m, field)))

\* saveSettings: the draft is stored, settingsChanged makes Timer load it
\* (loadSettings: setSettings(JSON.parse(saved))) and the hook renders with it
SaveSettings ==
  /\ Main(Commit(t, t, settings, tempSettings, TRUE),
          IF tempSettings # settings THEN "configChange" ELSE "configSave",
          FALSE, fromWorker)
  /\ settings' = tempSettings
  /\ settingsSaved' = TRUE
  /\ UNCHANGED tempSettings

InitSettings ==
  /\ now = Epoch
  /\ env \in Envs
  /\ user = FALSE
  /\ settings = DialogDefaults
  /\ settingsSaved = TRUE
  /\ t = Mount(NoSnapshot, DialogDefaults, TRUE, Epoch)
  /\ w = IdleWorker
  /\ toWorker = <<>>
  /\ fromWorker = <<>>
  /\ posts = 0
  /\ tempSettings = settings
  /\ srv = InitialServer
  /\ obs = [act |-> "init", loaded |-> NoSnapshot, armedWith |-> Null,
            userEvents |-> 0, lastArg |-> "none", runs |-> 0,
            fired |-> FALSE, swallowed |-> FALSE, abandoned |-> FALSE,
            frozen |-> Null, cancelled |-> FALSE]

NextSettings ==
  \/ OpenSettings
  \/ DurationChange
  \/ DurationBlur
  \/ SaveSettings

SpecSettings == InitSettings /\ [][NextSettings]_vars

-----------------------------------------------------------------------------
(* The API server on its own: requests of the holders of issued tokens *)

\* what belongs to the page: a request handled by the server leaves it alone
pageVars == <<now, env, user, settings, settingsSaved, t, w, toWorker, fromWorker,
              posts, obs, tempSettings>>

\* POST /api/auth/login
Login ==
  \E u \in Users, passwordOk \in BOOLEAN :
    /\ srv' = LoginHandler(srv, u, passwordOk)
    /\ UNCHANGED pageVars

\* POST /api/sessions
PostSession ==
  \E tok \in srv.tokens \cup {NoToken}, taskId \in TaskIds \cup {NoTask, MissingTask},
     type \in {"pomodoro", "shortBreak", "none"} :
    /\ srv.sessions < MaxSessions
    /\ srv' = PostSessionHandler(srv, tok, taskId, type)
    /\ UNCHANGED pageVars

\* PUT /api/tasks/:id
PutTask ==
  \E tok \in srv.tokens \cup {NoToken}, id \in TaskIds \cup {MissingTask},
     actPomodoros \in 0..MaxPomodoros :
    /\ srv' = PutTaskHandler(srv, tok, id, actPomodoros)
    /\ UNCHANGED pageVars

\* GET /api/admin/users
AdminGetUsers ==
  \E tok \in srv.tokens \cup {NoToken} :
    /\ srv' = AdminGetUsersHandler(srv, tok)
    /\ UNCHANGED pageVars

\* PATCH /api/admin/users/:id/role
PatchRole ==
  \E tok \in srv.tokens \cup {NoToken}, id \in Users, role \in Roles \cup {"owner"} :
    /\ srv' = PatchRoleHandler(srv, tok, id, role)
    /\ UNCHANGED pageVars

\* a page that is not used, next to a server in the state s
InitServer(s) ==
  /\ now = Epoch
  /\ env = "ok"
  /\ user = FALSE
  /\ settings = DEFAULT_SETTINGS
  /\ settingsSaved = FALSE
  /\ t = Mount(NoSnapshot, DEFAULT_SETTINGS, FALSE, Epoch)
  /\ w = IdleWorker
  /\ toWorker = <<>>
  /\ fromWorker = <<>>
  /\ posts = 0
  /\ tempSettings = settings
  /\ srv = s
  /\ obs = [act |-> "init", loaded |-> NoSnapshot, armedWith |-> Null,
            userEvents |-> 0, lastArg |-> "none", runs |-> 0,
            fired |-> FALSE, swallowed |-> FALSE, abandoned |-> FALSE,
            frozen |-> Null, cancelled |-> FALSE]

\* two users with one task each log sessions and edit tasks
InitSessions == InitServer(InitialServer)

NextSessions ==
  \/ Login
  \/ PostSession
  \/ PutTask

SpecSessions == InitSessions /\ [][NextSessions]_vars

\* any assignment of roles, with and without JWT_SECRET in the environment
InitAdmin ==
  \E role \in [Users -> Roles], secret \in BOOLEAN :
    InitServer([InitialServer EXCEPT !.role = role, !.jwtSecret = secret])

NextAdmin ==
  \/ Login
  \/ AdminGetUsers
  \/ PatchRole

SpecAdmin == InitAdmin /\ [][NextAdmin]_vars

-----------------------------------------------------------------------------
(* Properties *)

\* some ticker polls the deadline e, or has been told to and not told to stop
TickerArmedOn(tt, ww, q, e) ==
  \/ tt.fbActive
  \/ ww.timerId /\ ww.endTime = e
  \/ \E i \in 1..Len(q) :
       /\ q[i] = Start(e)
       /\ \A j \in (i + 1)..Len(q) : q[j].type = "CHECK"

\* a COMPLETE message is on its way to the page
CompleteInFlight(q) == \E i \in 1..Len(q) : q[i].type = "COMPLETE"

\* the mode the cadence prescribes after a phase of mode m, given the new count
NextModeAfter(m, newCount) ==
  IF m = "pomodoro"
    THEN (IF newCount % LongBreakEvery = 0 THEN "longBreak" ELSE "shortBreak")
    ELSE "pomodoro"

\* C1: between two armings of a deadline (start, auto-start, page load) or
\* clearings of the guard (reset), the completion policy runs at most once and
\* emits at most one notification, whatever triggers call handleTimerComplete.
C1_CompletionOnce == obs.runs <= 1

\* C1 witness: the policy has run once and a second trigger has just been
\* delivered and swallowed by the guard.
C1_Witness == obs.swallowed /\ obs.runs = 1 /\ t.completingRef

\* C2: whenever a ticker-driven completion runs the policy, the next mode is
\* the cadence's successor of the mode the engine held: after pomodoro,
\* longBreak if the new count is a multiple of 4 and shortBreak otherwise;
\* after a break, pomodoro.
C2_Cadence ==
  [][(obs'.fired /\ obs'.act # "restoreTimeout")
       => t'.mode = NextModeAfter(t.mode, t'.pomodoroCount)]_vars

\* C3: running is true exactly when a deadline is set.
C3_RunningIffDeadline == t.isRunning <=> (t.endTimeRef # Null)

\* C4: when the auto-start that follows a completion has fired, the timer is
\* running and a ticker (worker or fallback interval) is armed on its deadline.
C4_AutoStartArmsTicker ==
  obs.act = "autoStart"
    => /\ t.isRunning
       /\ t.endTimeRef # Null
       /\ TickerArmedOn(t, w, toWorker, t.endTimeRef)

\* C5: in a browser whose worker loads and runs, a running timer always has a
\* ticker armed on its deadline or a COMPLETE on its way, so that ticks keep
\* coming and the completion is reported; re-renders do not change that.
C5_RunningIsPolled ==
  (env = "ok" /\ t.isRunning /\ t.endTimeRef # Null)
    => \/ TickerArmedOn(t, w, toWorker, t.endTimeRef)
       \/ CompleteInFlight(fromWorker)

\* C6: once switchMode has interrupted a running phase, no completion
\* notification is emitted until a deadline is armed again.
C6_AbandonedNeverCompletes == ~(obs.abandoned /\ obs.fired)

\* C7: a TICK or COMPLETE that reaches the page while running is false changes
\* neither timeLeft, mode, pomodoroCount nor isRunning and notifies nobody.
C7_LateMessageIgnored ==
  [][(obs'.act \in {"tick", "complete"} /\ ~t.isRunning)
       => /\ t'.timeLeft = t.timeLeft
          /\ t'.mode = t.mode
          /\ t'.pomodoroCount = t.pomodoroCount
          /\ t'.isRunning = t.isRunning
          /\ ~obs'.fired]_vars

\* C8: a page load that finds a running snapshot whose deadline has passed has,
\* when the load is over, set timeLeft to 0 and run the completion policy: one
\* notification carrying the persisted mode, the mode advanced per the cadence.
C8_StaleLoadCompletes ==
  [][(obs'.act = "reload" /\ t.saved.present /\ t.saved.isRunning
        /\ t.saved.endTime # Null /\ t.saved.endTime <= now)
       => /\ obs'.fired
          /\ obs'.lastArg = t.saved.mode
          /\ t'.mode = NextModeAfter(t.saved.mode, t'.pomodoroCount)]_vars

\* C9: in a browser whose worker loads and runs, a page load that finds a
\* running snapshot whose deadline is still ahead resumes it: running, the
\* persisted deadline kept, timeLeft recomputed from it, a ticker armed on it.
C9_ResumeArmsTicker ==
  [][(env = "ok" /\ obs'.act = "reload" /\ t.saved.present /\ t.saved.isRunning
        /\ t.saved.endTime # Null /\ t.saved.endTime > now)
       => /\ t'.isRunning
          /\ t'.endTimeRef = t.saved.endTime
          /\ t'.timeLeft = Remaining(t.saved.endTime, now)
          /\ TickerArmedOn(t', w', toWorker', t.saved.endTime)]_vars

\* C10: a ticker-driven completion of a pomodoro phase adds exactly 1 to
\* pomodoroCount, a completion of a break leaves it unchanged, and so does
\* every other step of the page.
C10_CountSteps ==
  [][IF obs'.fired /\ obs'.act # "restoreTimeout"
       THEN t'.pomodoroCount = t.pomodoroCount + (IF t.mode = "pomodoro" THEN 1 ELSE 0)
       ELSE obs'.fired \/ t'.pomodoroCount = t.pomodoroCount]_vars

\* C11: a change of the configured durations sets timeLeft to the new duration
\* of the current mode when the timer is neither running nor started; when it
\* is running or has started, timeLeft, the deadline and isRunning stay as
\* they are.
C11_ConfigChange ==
  [][obs'.act = "configChange"
       => IF ~t.isRunning /\ ~t.hasStartedRef
            THEN t'.timeLeft = GetDuration(settings', t.mode)
            ELSE /\ t'.timeLeft = t.timeLeft
                 /\ t'.endTimeRef = t.endTimeRef
                 /\ t'.isRunning = t.isRunning]_vars

\* C11 witness: the durations were changed under a running phase whose
\* remaining time differs from the new duration of its mode.
C11_Witness ==
  /\ obs.act = "configChange"
  /\ t.isRunning
  /\ t.timeLeft # GetDuration(settings, t.mode)

\* C12: pause on a timer that is not running, as a second pause in a row is,
\* changes nothing: the state of the hook, its persisted snapshot and the
\* commands sent to the worker are as the first pause left them.
C12_PauseIdempotent ==
  [][obs'.act = "pauseNoop" => (t' = t /\ toWorker' = toWorker)]_vars

\* C12 witness: pause was clicked on a phase that is already paused.
C12_Witness ==
  /\ obs.act = "pauseNoop"
  /\ ~t.isRunning
  /\ t.hasStartedRef
  /\ t.endTimeRef = Null
  /\ ~t.completingRef
  /\ t.autoStarts = <<>>

\* C13: a completion reported by the worker, by the fallback interval or by
\* the visibility check notifies the mode the engine held when the completion
\* was handled, that is, the mode of the phase that just finished.
C13_NotifiesFinishedMode ==
  [][(obs'.fired /\ obs'.act \in {"complete", "fallbackTick", "visibility"})
       => obs'.lastArg = t.mode]_vars

\* C14: when the page holds no worker, because it could not be created or
\* because it reported an error, a running phase is polled by the fallback
\* interval.
C14_FallbackTakesOver ==
  (t.isRunning /\ t.endTimeRef # Null /\ ~t.workerRef) => t.fbActive

\* C15: the persisted snapshot equals the state in memory in all six fields.
C15_SnapshotIsState == t.saved = Snapshot(t)

\* the state of the hook is the default TimerState under the settings cfg
IsDefaultState(tt, cfg) ==
  /\ tt.mode = "pomodoro"
  /\ tt.timeLeft = cfg.pomodoro
  /\ ~tt.isRunning
  /\ tt.endTimeRef = Null
  /\ ~tt.hasStartedRef
  /\ tt.pomodoroCount = 0

\* the page load of the last step found an object with some field missing
LoadedPartial ==
  /\ obs.loaded.present
  /\ obs.loaded.valid
  /\ obs.loaded.fields # StateFields

C17_TickInRange ==
  [][/\ obs'.act = "start" => Remaining(t'.endTimeRef, now) = t.timeLeft
     /\ (/\ obs'.act \in {"tick", "fallbackTick"}
         /\ t.isRunning /\ t.endTimeRef # Null
         /\ ~t.completingRef /\ ~obs'.fired)
          => /\ t'.timeLeft >= Remaining(t.endTimeRef, now)
             /\ t'.timeLeft >= 0
             /\ t'.timeLeft <= obs.armedWith]_vars

\* C18: with a logged-in visitor every completion issues one session-log
\* request and, in the same step, advances the mode per the cadence and
\* schedules the auto-start of the next phase; a request that succeeds or
\* fails changes nothing in the hook and is not issued again; the auto-start
\* arms the next phase whether or not requests are still unanswered.
C18_LoggingNeverBlocks ==
  [][/\ obs'.act \in {"sessionLogged", "sessionFailed"}
          => (t' = t /\ posts' = posts - 1)
     /\ obs'.fired
          => /\ posts' = posts + 1
             /\ t'.mode = NextModeAfter(obs'.lastArg, t'.pomodoroCount)
             /\ t'.autoStarts # <<>>
             /\ t'.autoStarts[Len(t'.autoStarts)].nextDuration = t'.timeLeft
     /\ obs'.act = "autoStart"
          => /\ t'.isRunning
             /\ t'.endTimeRef = now + Head(t.autoStarts).nextDuration * SecondMs]_vars

\* C18 witness: a session-log request has just failed while the auto-start
\* of the next phase is pending, and the next phase is in place.
C18_Witness ==
  /\ obs.act = "sessionFailed"
  /\ t.autoStarts # <<>>
  /\ t.mode = "shortBreak"
  /\ t.pomodoroCount = 1

\* the polling loops of the engine that are live: intervals of the worker
\* and fallback intervals of the page
PollingLoops ==
  (IF w.timerId THEN 1 ELSE 0) + w.orphans
    + (IF t.fbActive THEN 1 ELSE 0) + t.fbOrphans

C20_StopIdempotent ==
  [][obs'.act \in StopLabels
       => /\ ~w'.timerId
          /\ w'.endTime = Null
          /\ fromWorker' = fromWorker
          /\ obs'.act \in {"workerStopIdle", "workerStopAgain"} => w' = w]_vars

\* C20 witness: the worker has handled a STOP directly after another STOP.
C20_Witness ==
  /\ obs.act = "workerStopAgain"
  /\ w = IdleWorker

\* C21: start on a timer that is not running sets the deadline to now plus
\* timeLeft seconds, isRunning and hasStarted, leaves mode, timeLeft and count
\* alone and hands the deadline to the driver in use: START to the worker the
\* page holds, else a fallback interval; start on a running timer changes
\* nothing and sends nothing.
C21_StartFrame ==
  [][/\ obs'.act = "start"
          => /\ t'.endTimeRef = now + t.timeLeft * SecondMs
             /\ t'.isRunning /\ t'.hasStartedRef
             /\ t'.mode = t.mode
             /\ t'.timeLeft = t.timeLeft
             /\ t'.pomodoroCount = t.pomodoroCount
             /\ IF t.workerRef
                  THEN env = "ok" => toWorker' = Append(toWorker, Start(t'.endTimeRef))
                  ELSE t'.fbActive /\ toWorker' = toWorker
     /\ obs'.act = "startNoop" => (t' = t /\ toWorker' = toWorker)]_vars

\* C21 witness: start was clicked on a running timer, whose deadline is the
\* one the first start set.
C21_Witness ==
  /\ obs.act = "startNoop"
  /\ t.isRunning
  /\ t.endTimeRef = Epoch + t.timeLeft * SecondMs
  /\ now > Epoch

\* C22: pause on a running timer freezes timeLeft at what remains of the
\* deadline, clears isRunning and the deadline, stops the ticker and leaves
\* mode, hasStarted and count alone; the next start after a pause resumes from
\* exactly the frozen value: its deadline is now plus the seconds the pause left.
C22_PauseResume ==
  [][/\ obs'.act = "pause"
          => /\ t.endTimeRef # Null => t'.timeLeft = Remaining(t.endTimeRef, now)
             /\ ~t'.isRunning /\ t'.endTimeRef = Null /\ ~t'.fbActive
             /\ (t.workerRef /\ env = "ok") => toWorker' = Append(toWorker, Stop)
             /\ t'.mode = t.mode
             /\ t'.hasStartedRef = t.hasStartedRef
             /\ t'.pomodoroCount = t.pomodoroCount
     /\ (obs'.act = "start" /\ obs.frozen # Null)
          => t'.endTimeRef = now + obs.frozen * SecondMs]_vars

\* C23: reset, from any state, sets timeLeft to the configured duration of the
\* current mode, clears isRunning, the deadline, hasStarted and the completion
\* guard, stops the ticker, and leaves mode and count alone.
C23_ResetFrame ==
  [][obs'.act = "reset"
       => /\ t'.timeLeft = GetDuration(settings, t.mode)
          /\ ~t'.isRunning /\ t'.endTimeRef = Null
          /\ ~t'.hasStartedRef /\ ~t'.completingRef
          /\ ~t'.fbActive
          /\ (t.workerRef /\ env = "ok") => toWorker' = Append(toWorker, Stop)
          /\ t'.mode = t.mode
          /\ t'.pomodoroCount = t.pomodoroCount]_vars

\* C23 witness: reset was clicked after a completed focus phase, while the
\* completion guard was still set, and it left the break at full length.
C23_Witness ==
  /\ obs.act = "reset"
  /\ t.autoStarts # <<>>
  /\ t.pomodoroCount = 1
  /\ t.mode = "shortBreak"
  /\ t.timeLeft = GetDuration(settings, t.mode)
  /\ ~t.completingRef

\* C24: a tick is computed from the deadline and the clock alone. A run of
\* the worker's checkTime posts TICK with what remains of its deadline and,
\* before the deadline, leaves the worker as it was; a run of the fallback
\* callback sets timeLeft to what remains of the page's deadline, changes
\* nothing when timeLeft already has that value (a duplicate tick), moves
\* neither the deadline nor isRunning before the deadline, and detects
\* completion exactly when nothing remains.
C24_TickIdempotent ==
  [][/\ obs'.act = "workerInterval"
          => LET remaining == Remaining(w.endTime, now)
             IN IF remaining > 0
                  THEN /\ w' = w
                       /\ fromWorker' = Append(fromWorker, Tick(remaining))
                  ELSE /\ w'.endTime = Null
                       /\ fromWorker' = fromWorker \o <<Tick(0), Complete>>
     /\ (obs'.act = "fallbackTick" /\ t.endTimeRef # Null /\ ~t.completingRef)
          => LET remaining == Remaining(t.endTimeRef, now)
             IN /\ obs'.fired <=> remaining = 0
                /\ remaining > 0
                     => /\ t'.timeLeft = remaining
                        /\ t'.endTimeRef = t.endTimeRef
                        /\ t'.isRunning = t.isRunning
                        /\ t.timeLeft = remaining => t' = t]_vars

\* C24 witness: the worker has posted two ticks for one deadline that carry the
\* same value, the second just now, and is still polling that deadline.
C24_Witness ==
  /\ obs.act = "workerInterval"
  /\ w.endTime # Null
  /\ Len(fromWorker) = 2
  /\ fromWorker[1] = fromWorker[2]
  /\ fromWorker[2] = Tick(Remaining(w.endTime, now))

\* C26: after a reset or a switchMode issued during the delay between a
\* completion and its auto-start, the timer stays not running, at the
\* configured duration of the mode it shows, until the next explicit start:
\* the scheduled auto-start does not happen.
C26_AutoStartCancelled ==
  obs.cancelled => /\ ~t.isRunning
                   /\ t.timeLeft = GetDuration(settings, t.mode)

\* C27: in every reachable state timeLeft lies between 0 and the configured
\* duration of the current mode, so that progress = 1 - timeLeft / duration
\* lies in [0, 1]; also after a config change, a restore and a late tick.
C27_ProgressInRange ==
  /\ 0 <= t.timeLeft
  /\ t.timeLeft <= GetDuration(settings, t.mode)

\* C30: between a COMPLETE or a STOP and the next START the worker is fully
\* idle: a worker without a deadline has no polling interval scheduled, and
\* handling STOP or CHECK in that state posts nothing and arms nothing; this
\* includes the worker that was sent START with a deadline already passed.
C30_IdleWorker ==
  [][/\ w'.endTime = Null => (~w'.timerId /\ w'.orphans = 0)
     /\ (/\ w.endTime = Null
         /\ obs'.act \in StopLabels \cup {"workerReceive"}
         /\ Head(toWorker).type # "START")
          => (fromWorker' = fromWorker /\ w'.endTime = Null)]_vars

\* C25: every duration that Timer receives from the settings dialog is a
\* positive integer number of seconds, no greater than the cap of its mode.
C25_DurationsPositive ==
  \A m \in TimerMode :
    /\ settings[m] \in Int
    /\ 1 <= settings[m]
    /\ settings[m] <= CapSeconds(m)

\* C28: POST /sessions changes no task but one that the authenticated
\* requester owns, and that one only by adding 1 to actPomodoros when the
\* request has type 'pomodoro' and names it as taskId; a request that names
\* another user's task leaves that task unchanged.
C28_OnlyOwnTasks ==
  [][srv'.last.route = "POST /sessions"
       => \A k \in TaskIds :
            srv'.tasks[k] # srv.tasks[k]
              => /\ srv.tasks[k].userId = srv'.last.by
                 /\ srv'.last.type = "pomodoro"
                 /\ srv'.last.taskId = k
                 /\ srv'.tasks[k] = [srv.tasks[k] EXCEPT !.actPomodoros = @ + 1]]_vars

\* C29: a request to an /api/admin route by a user whose role was changed
\* from admin to user is rejected, whatever token it carries.
C29_DemotedRejected ==
  (/\ srv.last.route \in {"GET /admin/users", "PATCH /admin/users/:id/role"}
   /\ srv.last.demoted)
    => srv.last.status \in {401, 403}

=============================================================================
